---- MODULE Spec2Model ----
(***************************************************************************)
(* cns/networkcontainers/networkcontainers_linux.go                        *)
(*                                                                         *)
(* createOrUpdateInterface / createOrUpdateWithOperation drive the CNI     *)
(* plugin /opt/cni/bin/azure-vnet: precondition checks, the flattening of  *)
(* /etc/cni/net.d/10-azure.conflist (getNetworkConf), the spawn of the     *)
(* plugin (updateNetwork) and the reading of its result (pluginErr).       *)
(*                                                                         *)
(* Byte strings ([]byte, string) are sequences of symbols.  A symbol is a  *)
(* punctuation byte, or a run of letters / a numeral taken as one unit     *)
(* ("msg", "boom", "5").                                                   *)
(***************************************************************************)
EXTENDS Integers, Sequences, FiniteSets, TLC

\* ------------------------------------------------------------------------
\* Bounds of the model
\* ------------------------------------------------------------------------

\* longest "plugins" list of a configuration document
MaxPlugins == 2

\* longest raw (non-rendered) text the plugin writes to its standard output
MaxOutLen == 3

\* ------------------------------------------------------------------------
\* Bytes
\* ------------------------------------------------------------------------

DQ == "\""
BS == "\\"
LF == "\n"

\* ------------------------------------------------------------------------
\* JSON values.  [t, v]: t is the kind, v always a sequence:
\*   "str"  the symbols of the string        "num"  the numeral, <<"5">>
\*   "null" <<>>                             "arr"  the elements
\*   "obj"  the members, <<key, value>> pairs, key a sequence of symbols
\* Two more kinds describe what an environment holds instead of a value:
\*   "text" raw bytes v                      "absent" no such field / file
\* ------------------------------------------------------------------------

Str(s) == [t |-> "str", v |-> s]
Num(n) == [t |-> "num", v |-> <<n>>]
Null == [t |-> "null", v |-> <<>>]
Arr(elems) == [t |-> "arr", v |-> elems]
Obj(members) == [t |-> "obj", v |-> members]
Text(bytes) == [t |-> "text", v |-> bytes]
Absent == [t |-> "absent", v |-> <<>>]

\* the members that are present, in the order given
Fields(members) == SelectSeq(members, LAMBDA m : m[2].t # "absent")

Numerals == {"5"}

\* encoding/json: a string's bytes between the quotes
RECURSIVE EscapeJSON(_)
EscapeJSON(s) ==
  IF s = <<>> THEN <<>>
  ELSE (IF Head(s) \in {DQ, BS} THEN <<BS, Head(s)>>
        ELSE IF Head(s) = LF THEN <<BS, "n">>
        ELSE <<Head(s)>>) \o EscapeJSON(Tail(s))

\* the bytes of a JSON value, members and elements in the order held
RECURSIVE Render(_)
RECURSIVE RenderList(_, _)
RenderList(items, isObj) ==
  IF items = <<>> THEN <<>>
  ELSE LET one == IF isObj
                  THEN <<DQ>> \o EscapeJSON(Head(items)[1]) \o <<DQ, ":">>
                       \o Render(Head(items)[2])
                  ELSE Render(Head(items))
       IN one \o (IF Len(items) > 1 THEN <<",">> ELSE <<>>)
              \o RenderList(Tail(items), isObj)

Render(val) ==
  CASE val.t = "str" -> <<DQ>> \o EscapeJSON(val.v) \o <<DQ>>
    [] val.t = "num" -> val.v
    [] val.t = "null" -> <<"null">>
    [] val.t = "arr" -> <<"[">> \o RenderList(val.v, FALSE) \o <<"]">>
    [] val.t = "obj" -> <<"{">> \o RenderList(val.v, TRUE) \o <<"}">>
    [] OTHER -> val.v

\* ---- the decoder's scanner -----------------------------------------------

ParseFail == [ok |-> FALSE, val |-> Null, next |-> 0]
ParseOk(val, next) == [ok |-> TRUE, val |-> val, next |-> next]

RECURSIVE SkipWS(_, _)
SkipWS(s, i) == IF i <= Len(s) /\ s[i] = LF THEN SkipWS(s, i + 1) ELSE i

\* s[i] is the first byte after the opening quote
RECURSIVE ReadStr(_, _, _)
ReadStr(s, i, acc) ==
  IF i > Len(s) THEN ParseFail
  ELSE IF s[i] = DQ THEN ParseOk(Str(acc), i + 1)
  ELSE IF s[i] = LF THEN ParseFail
  ELSE IF s[i] = BS
       THEN IF i + 1 > Len(s) THEN ParseFail
            ELSE IF s[i + 1] \in {DQ, BS}
                 THEN ReadStr(s, i + 2, Append(acc, s[i + 1]))
            ELSE IF s[i + 1] = "n" THEN ReadStr(s, i + 2, Append(acc, LF))
            ELSE ParseFail
  ELSE ReadStr(s, i + 1, Append(acc, s[i]))

RECURSIVE ParseValue(_, _)
RECURSIVE ParseMembers(_, _, _)
RECURSIVE ParseElements(_, _, _)

\* i is at the first member's key (after "{" or ",")
ParseMembers(s, i0, acc) ==
  LET i == SkipWS(s, i0) IN
  IF i > Len(s) \/ s[i] # DQ THEN ParseFail
  ELSE LET k == ReadStr(s, i + 1, <<>>) IN
       IF ~k.ok THEN ParseFail
       ELSE LET colon == SkipWS(s, k.next) IN
            IF colon > Len(s) \/ s[colon] # ":" THEN ParseFail
            ELSE LET x == ParseValue(s, colon + 1) IN
                 IF ~x.ok THEN ParseFail
                 ELSE LET stop == SkipWS(s, x.next)
                          all == Append(acc, <<k.val.v, x.val>>)
                      IN IF stop > Len(s) THEN ParseFail
                         ELSE IF s[stop] = "}" THEN ParseOk(Obj(all), stop + 1)
                         ELSE IF s[stop] = "," THEN ParseMembers(s, stop + 1, all)
                         ELSE ParseFail

\* i is at the first byte of an element (after "[" or ",")
ParseElements(s, i0, acc) ==
  LET x == ParseValue(s, i0) IN
  IF ~x.ok THEN ParseFail
  ELSE LET stop == SkipWS(s, x.next)
           all == Append(acc, x.val)
       IN IF stop > Len(s) THEN ParseFail
          ELSE IF s[stop] = "]" THEN ParseOk(Arr(all), stop + 1)
          ELSE IF s[stop] = "," THEN ParseElements(s, stop + 1, all)
          ELSE ParseFail

ParseValue(s, i0) ==
  LET i == SkipWS(s, i0) IN
  IF i > Len(s) THEN ParseFail
  ELSE CASE s[i] = DQ -> ReadStr(s, i + 1, <<>>)
         [] s[i] \in Numerals -> ParseOk(Num(s[i]), i + 1)
         [] s[i] = "null" -> ParseOk(Null, i + 1)
         [] s[i] = "{" ->
              LET j == SkipWS(s, i + 1) IN
              IF j <= Len(s) /\ s[j] = "}" THEN ParseOk(Obj(<<>>), j + 1)
              ELSE ParseMembers(s, j, <<>>)
         [] s[i] = "[" ->
              LET j == SkipWS(s, i + 1) IN
              IF j <= Len(s) /\ s[j] = "]" THEN ParseOk(Arr(<<>>), j + 1)
              ELSE ParseElements(s, j, <<>>)
         [] OTHER -> ParseFail

\* a whole document: one value and nothing but white space after it
ParseJSON(s) ==
  LET x == ParseValue(s, 1) IN
  IF x.ok /\ SkipWS(s, x.next) > Len(s) THEN x ELSE ParseFail

\* ------------------------------------------------------------------------
\* error values: [kind, msg].  kind is the Go type of the error, "nil" for
\* no error; msg the text it carries (types.Error.Msg, errors.New's text)
\* ------------------------------------------------------------------------

NilErr == [kind |-> "nil", msg |-> <<>>]
ErrorString(text) == [kind |-> "errorString", msg |-> <<text>>]
SyntaxError == [kind |-> "SyntaxError", msg |-> <<"invalid JSON input">>]
UnmarshalTypeError ==
  [kind |-> "UnmarshalTypeError", msg |-> <<"json: cannot unmarshal into Go value">>]
PathError(op) == [kind |-> "PathError", msg |-> <<op>>]
ExitError == [kind |-> "ExitError", msg |-> <<"exit status 1">>]
PluginError(msg) == [kind |-> "PluginError", msg |-> msg]

\* ------------------------------------------------------------------------
\* encoding/json into Go values
\* ------------------------------------------------------------------------

\* byte order of the symbols that occur in member names
KeyOrder == <<"PodName", "PodNamespace", "cniVersion", "extra", "msg", "name",
              "plugins", "pos", "type">>

Rank(sym) == CHOOSE i \in 1..Len(KeyOrder) : KeyOrder[i] = sym

RECURSIVE KeyLess(_, _)
KeyLess(a, b) ==
  IF b = <<>> THEN FALSE
  ELSE IF a = <<>> THEN TRUE
  ELSE IF Head(a) = Head(b) THEN KeyLess(Tail(a), Tail(b))
  ELSE Rank(Head(a)) < Rank(Head(b))

\* a Go map[string]interface{} is an "obj" whose members have distinct
\* keys, held in key order (the order json.Marshal writes them in)

MapKeys(m) == {m.v[i][1] : i \in 1..Len(m.v)}

\* m[k]; the nil interface (Absent) when there is no such key
MapGet(m, k) ==
  IF k \in MapKeys(m)
  THEN m.v[CHOOSE i \in 1..Len(m.v) : m.v[i][1] = k][2]
  ELSE Absent

\* m[k] = val
MapSet(m, k, val) ==
  LET before == SelectSeq(m.v, LAMBDA mem : KeyLess(mem[1], k))
      after == SelectSeq(m.v, LAMBDA mem : KeyLess(k, mem[1]))
  IN Obj(before \o << <<k, val>> >> \o after)

\* a JSON value decoded into an interface{}: objects become maps (a later
\* duplicate of a key replaces the earlier one), arrays become slices
RECURSIVE DecodeAny(_)
RECURSIVE DecodeMembers(_, _)
RECURSIVE DecodeElements(_)
DecodeMembers(members, acc) ==
  IF members = <<>> THEN acc
  ELSE DecodeMembers(Tail(members),
                     MapSet(acc, Head(members)[1], DecodeAny(Head(members)[2])))

DecodeElements(elems) ==
  IF elems = <<>> THEN <<>>
  ELSE <<DecodeAny(Head(elems))>> \o DecodeElements(Tail(elems))

DecodeAny(val) ==
  CASE val.t = "obj" -> DecodeMembers(val.v, Obj(<<>>))
    [] val.t = "arr" -> Arr(DecodeElements(val.v))
    [] OTHER -> val

\* json.Unmarshal(content, &configMap), configMap a map[string]interface{}:
\* null leaves the map nil (it reads as the empty map)
UnmarshalMap(content) ==
  LET x == ParseJSON(content) IN
  IF ~x.ok THEN [err |-> SyntaxError, map |-> Obj(<<>>)]
  ELSE IF x.val.t = "null" THEN [err |-> NilErr, map |-> Obj(<<>>)]
  ELSE IF x.val.t # "obj" THEN [err |-> UnmarshalTypeError, map |-> Obj(<<>>)]
  ELSE [err |-> NilErr, map |-> DecodeAny(x.val)]

\* json.Marshal of a map: its members in key order
MarshalMap(m) == Render(m)

\* encoding/json matches a member name to a field ignoring case
Lower(sym) ==
  CASE sym = "Msg" -> "msg"
    [] sym = "PodName" -> "podname"
    [] sym = "PodNamespace" -> "podnamespace"
    [] OTHER -> sym

FoldKey(k) == [i \in 1..Len(k) |-> Lower(k[i])]

\* json.Unmarshal(data, &s), s a struct.  `fields` maps each field's folded
\* name to the JSON kind it takes; `zero` is the struct before the call.
\* A member of the wrong kind is skipped and reported once all are read.
RECURSIVE DecodeStruct(_, _, _, _)
DecodeStruct(members, fields, acc, err) ==
  IF members = <<>> THEN [err |-> err, val |-> acc]
  ELSE LET k == FoldKey(Head(members)[1])
           x == Head(members)[2]
       IN IF k \notin DOMAIN fields \/ x.t = "null"
          THEN DecodeStruct(Tail(members), fields, acc, err)
          ELSE IF x.t # fields[k]
          THEN DecodeStruct(Tail(members), fields, acc,
                            IF err.kind = "nil" THEN UnmarshalTypeError ELSE err)
          ELSE DecodeStruct(Tail(members), fields,
                            [acc EXCEPT ![k] = x.v], err)

UnmarshalStruct(data, fields, zero) ==
  LET x == ParseJSON(data) IN
  IF ~x.ok THEN [err |-> SyntaxError, val |-> zero]
  ELSE IF x.val.t = "null" THEN [err |-> NilErr, val |-> zero]
  ELSE IF x.val.t # "obj" THEN [err |-> UnmarshalTypeError, val |-> zero]
  ELSE DecodeStruct(x.val.v, fields, zero, NilErr)

\* cns.KubernetesPodInfo{PodName, PodNamespace string}
PodInfoFields == (<<"podname">> :> "str") @@ (<<"podnamespace">> :> "str")
PodInfoZero == (<<"podname">> :> <<>>) @@ (<<"podnamespace">> :> <<>>)

\* types.Error{Pos, Msg}: the fields a payload's members can reach
ErrorFields == (<<"msg">> :> "str") @@ (<<"pos">> :> "num")
ErrorZero == (<<"msg">> :> <<>>) @@ (<<"pos">> :> <<>>)

\* ------------------------------------------------------------------------
\* fmt's %q (strconv.Quote)
\* ------------------------------------------------------------------------

RECURSIVE QuoteBody(_)
QuoteBody(s) ==
  IF s = <<>> THEN <<>>
  ELSE (CASE Head(s) = DQ -> <<BS, DQ>>
          [] Head(s) = BS -> <<BS, BS>>
          [] Head(s) = LF -> <<BS, "n">>
          [] OTHER -> <<Head(s)>>) \o QuoteBody(Tail(s))

Quote(s) == <<DQ>> \o QuoteBody(s) \o <<DQ>>

\* ------------------------------------------------------------------------
\* The program's constants and pure functions
\* ------------------------------------------------------------------------

VersionStr == <<"cniVersion">>
PluginsStr == <<"plugins">>
NameStr == <<"name">>

\* buildCNIRuntimeConf
buildCNIRuntimeConf(podName, podNs, podSandboxId, podNetnsPath, interfaceName) ==
  [ContainerID |-> podSandboxId,
   NetNS |-> podNetnsPath,
   IfName |-> interfaceName,
   Args |-> << <<"K8S_POD_NAMESPACE", podNs>>, <<"K8S_POD_NAME", podName>> >>]

\* args
args(action, rt) ==
  [Command |-> action,
   ContainerID |-> rt.ContainerID,
   NetNS |-> rt.NetNS,
   PluginArgs |-> rt.Args,
   IfName |-> rt.IfName,
   Path |-> "/opt/cni/bin"]

\* invoke.Args.AsEnv: the CNI_* variables; CNI_ARGS is the pairs as
\* key=value joined by ";"
RECURSIVE Stringify(_)
Stringify(pairs) ==
  IF pairs = <<>> THEN <<>>
  ELSE <<Head(pairs)[1], "=">> \o Head(pairs)[2]
       \o (IF Len(pairs) > 1 THEN <<";">> ELSE <<>>) \o Stringify(Tail(pairs))

AsEnv(a) ==
  [CNI_COMMAND |-> a.Command,
   CNI_CONTAINERID |-> a.ContainerID,
   CNI_NETNS |-> a.NetNS,
   CNI_ARGS |-> Stringify(a.PluginArgs),
   CNI_IFNAME |-> a.IfName,
   CNI_PATH |-> a.Path]

\* ioutil.ReadFile of a file holding `file` (Absent: no such file)
ReadFile(file) ==
  IF file.t = "absent" THEN [err |-> PathError("open"), content |-> <<>>]
  ELSE [err |-> NilErr, content |-> Render(file)]

\* how a call of getNetworkConf ends: it returns (netConfig, err), or a
\* failed type assertion / index expression panics and nothing is returned
Returned(netConfig, err) ==
  [outcome |-> "returned", netConfig |-> netConfig, err |-> err]
Panics(what) ==
  [outcome |-> "panic", netConfig |-> <<>>,
   err |-> [kind |-> "runtime.Error", msg |-> <<what>>]]
NoConf == [outcome |-> "none", netConfig |-> <<>>, err |-> NilErr]

\* pluginsSection[0], with the last entry taken instead
FirstPluginLast(pluginsSection) == pluginsSection.v[Len(pluginsSection.v)]

\* pluginsSection[0]
FirstPlugin(pluginsSection) == pluginsSection.v[1]

\* insert version and name fields
InsertVersionAndName(flatNetConfigMap, configMap) ==
  MapSet(MapSet(flatNetConfigMap, VersionStr, MapGet(configMap, VersionStr)),
         NameStr, MapGet(configMap, NameStr))

\* getNetworkConf
getNetworkConf(file) ==
  LET r == ReadFile(file) IN
  IF r.err.kind # "nil" THEN Returned(<<>>, r.err)
  ELSE LET u == UnmarshalMap(r.content) IN
       IF u.err.kind # "nil" THEN Returned(<<>>, u.err)
       ELSE LET configMap == u.map
                pluginsSection == MapGet(configMap, PluginsStr)
            IN IF pluginsSection.t # "arr" THEN Panics("interface conversion")
               ELSE IF pluginsSection.v = <<>> THEN Panics("index out of range")
               ELSE IF FirstPlugin(pluginsSection).t # "obj"
                    THEN Panics("interface conversion")
               ELSE IF MapGet(configMap, VersionStr).t # "str"
                    THEN Panics("interface conversion")
               ELSE IF MapGet(configMap, NameStr).t # "str"
                    THEN Panics("interface conversion")
               ELSE Returned(MarshalMap(InsertVersionAndName(
                               FirstPlugin(pluginsSection), configMap)), NilErr)

ParseFailurePrefix == "netplugin failed but error parsing its diagnostic message "

\* pluginErr, with every failed run taken for a plugin failure
pluginErrAnyError(err, output) ==
  IF err.kind # "nil"
  THEN LET u == UnmarshalStruct(output, ErrorFields, ErrorZero) IN
       IF u.err.kind # "nil"
       THEN PluginError(<<ParseFailurePrefix>> \o Quote(output) \o <<": ">>
                        \o u.err.msg)
       ELSE PluginError(u.val[<<"msg">>])
  ELSE err

\* pluginErr, with the output dropped from the synthesized message
pluginErrNoOutput(err, output) ==
  IF err.kind = "ExitError"
  THEN LET u == UnmarshalStruct(output, ErrorFields, ErrorZero) IN
       IF u.err.kind # "nil"
       THEN PluginError(<<ParseFailurePrefix>> \o <<": ">> \o u.err.msg)
       ELSE PluginError(u.val[<<"msg">>])
  ELSE err

\* pluginErr
pluginErr(err, output) ==
  IF err.kind = "ExitError"
  THEN LET u == UnmarshalStruct(output, ErrorFields, ErrorZero) IN
       IF u.err.kind # "nil"
       THEN PluginError(<<ParseFailurePrefix>> \o Quote(output) \o <<": ">>
                        \o u.err.msg)
       ELSE PluginError(u.val[<<"msg">>])
  ELSE err

\* ------------------------------------------------------------------------
\* Inputs: requests, the file system, what the plugin does
\* ------------------------------------------------------------------------

K(name) == <<name>>

WebApps == "WebApps"
NetworkContainerTypes == {WebApps, "Kubernetes"}
Operations == {"UPDATE", "CREATE"}

PodDoc(podName, podNs) ==
  Obj(<< <<K("PodName"), podName>>, <<K("PodNamespace"), podNs>> >>)

\* what an OrchestratorContext may hold: pod metadata, metadata of the
\* wrong type, bytes that are no JSON, nothing at all
ContextDocs ==
  {PodDoc(Str(<<"pod1">>), Str(<<"default">>)),
   PodDoc(Str(<<"pod2">>), Str(<<"kube", DQ, "sys">>)),
   PodDoc(Num("5"), Str(<<"default">>)),
   Text(<<"{">>),
   Text(<<>>)}

Requests ==
  [NetworkContainerType : NetworkContainerTypes,
   NetworkContainerid : {"nc1", "nc2"},
   IPAddress : {"", "10.0.0.4"},
   OrchestratorContext : {Render(c) : c \in ContextDocs}]

NoRequest ==
  [NetworkContainerType |-> "", NetworkContainerid |-> "", IPAddress |-> "",
   OrchestratorContext |-> <<>>]

\* os.Stat("/opt/cni/bin/azure-vnet"): found, not found, not decidable
StatResults == {NilErr, PathError("ENOENT"), PathError("EACCES")}
IsNotExist(err) == err = PathError("ENOENT")

\* configuration documents
ConfDoc(version, name, plugins, extra) ==
  Obj(Fields(<< <<K("plugins"), plugins>>, <<K("cniVersion"), version>>,
                <<K("extra"), extra>>, <<K("name"), name>> >>))

PluginKeys == {"type", "name", "cniVersion"}

\* a plugin entry holding the keys S
PluginEntry(S) ==
  Obj(Fields(<< <<K("type"), IF "type" \in S THEN Str(<<"vnet">>) ELSE Absent>>,
                <<K("name"), IF "name" \in S THEN Str(<<"inner">>) ELSE Absent>>,
                <<K("cniVersion"),
                  IF "cniVersion" \in S THEN Str(<<"0.1.0">>) ELSE Absent>> >>))

PluginEntries == {PluginEntry(S) : S \in SUBSET PluginKeys} \cup {Str(<<"vnet">>)}

PluginLists == UNION {[1..n -> PluginEntries] : n \in 0..MaxPlugins}

VersionChoices == {Absent, Str(<<"0.4.0">>), Num("5")}
NameChoices == {Absent, Str(<<"azure">>), Num("5")}
PluginsChoices == {Absent, Str(<<"vnet">>)} \cup {Arr(l) : l \in PluginLists}
ExtraChoices == {Absent, Str(<<"x">>)}

\* every file the flattener is tried on
AllConfFiles ==
  {ConfDoc(ver, nm, pl, ex) : ver \in VersionChoices, nm \in NameChoices,
                              pl \in PluginsChoices, ex \in ExtraChoices}
  \cup {Absent, Null, Text(<<"{">>), Arr(<<>>)}

TypeVnet == PluginEntry({"type"})

\* the files an orchestration call meets
SampleConfFiles ==
  {ConfDoc(Str(<<"0.4.0">>), Str(<<"azure">>), Arr(<<TypeVnet>>), Absent),
   ConfDoc(Str(<<"0.4.0">>), Str(<<"azure">>),
           Arr(<<PluginEntry({"type", "name"}), PluginEntry({})>>), Str(<<"x">>)),
   ConfDoc(Str(<<"0.4.0">>), Str(<<"azure">>), Arr(<<>>), Absent),
   ConfDoc(Absent, Str(<<"azure">>), Arr(<<TypeVnet>>), Absent),
   ConfDoc(Str(<<"0.4.0">>), Num("5"), Arr(<<TypeVnet>>), Absent),
   ConfDoc(Str(<<"0.4.0">>), Str(<<"azure">>), Absent, Absent),
   Text(<<"{">>),
   Absent}

\* what the plugin writes to its standard output
RawChars == {"b", DQ, LF, "{", "}"}
RawOutputs == UNION {[1..n -> RawChars] : n \in 0..MaxOutLen}

ErrorPayload(msg, pos) == Obj(Fields(<< <<K("msg"), msg>>, <<K("pos"), pos>> >>))
MsgChoices == {Absent, Str(<<"boom">>), Str(<<"bo", DQ, "om", LF>>), Num("5"), Null}
PosChoices == {Absent, Num("5"), Str(<<"x">>)}
ErrorPayloads == {ErrorPayload(m, p) : m \in MsgChoices, p \in PosChoices}

AllOutputs == RawOutputs \cup {Render(p) : p \in ErrorPayloads}

SampleOutputs ==
  {<<>>, <<"b", DQ, LF>>,
   Render(ErrorPayload(Str(<<"boom">>), Absent)),
   Render(ErrorPayload(Str(<<"boom">>), Str(<<"x">>)))}

\* how c.Run() can end: clean exit, non-zero exit, the copying of the
\* standard streams failing, the process not starting at all
StartError == PathError("fork/exec")
CopyError == ErrorString("write |1: broken pipe")
RunErrors == {NilErr, ExitError, CopyError, StartError}

\* (err, stdout) pairs of a run: a process that never started wrote nothing
RunsOver(outputs) ==
  {r \in [err : RunErrors, output : outputs] :
     r.err = StartError => r.output = <<>>}

\* ------------------------------------------------------------------------
\* State
\* ------------------------------------------------------------------------

\* most calls served one after the other
MaxCalls == 2

VARIABLES
  calls,        \* calls started so far
  pc,           \* where the current call is
  entry,        \* the function the caller entered
  req,          \* createNetworkContainerRequest
  operation,    \* createOrUpdateWithOperation's operation
  binStat,      \* what os.Stat answers for /opt/cni/bin/azure-vnet
  confFile,     \* what /etc/cni/net.d/10-azure.conflist holds
  exists,       \* interfaceExists' answer: "none" until asked
  podInfo,      \* the decoded cns.KubernetesPodInfo
  rt,           \* the libcni.RuntimeConf
  conf,         \* how getNetworkConf ended
  environ,      \* c.Env of the spawned plugin
  stdin,        \* c.Stdin
  procErr,      \* c.Run()'s error
  stdout,       \* the captured standard output
  result,       \* the error the call returned
  flattens,     \* calls of getNetworkConf in this call
  invocations,  \* calls of updateNetwork in this call
  spawned       \* plugin processes started in this call

vars == <<calls, pc, entry, req, operation, binStat, confFile, exists, podInfo,
          rt, conf, environ, stdin, procErr, stdout, result, flattens,
          invocations, spawned>>

NoRt == buildCNIRuntimeConf(<<>>, <<>>, "", "", "")
NoEnv == AsEnv(args("", NoRt))

\* what a call has done, before it has done anything
CallFresh ==
  /\ entry = "none"
  /\ req = NoRequest
  /\ operation = ""
  /\ exists = "none"
  /\ podInfo = PodInfoZero
  /\ rt = NoRt
  /\ conf = NoConf
  /\ environ = NoEnv
  /\ stdin = <<>>
  /\ result = NilErr
  /\ flattens = 0
  /\ invocations = 0
  /\ spawned = 0

\* nothing of an earlier call is kept
Fresh ==
  /\ pc = "Idle"
  /\ binStat = NilErr
  /\ confFile = Absent
  /\ procErr = NilErr
  /\ stdout = <<>>
  /\ CallFresh

Init == calls = 0 /\ Fresh

callState == <<calls, entry, req, operation, binStat, confFile>>
progress == <<exists, podInfo, rt, conf, environ, stdin, procErr, stdout,
              flattens, invocations, spawned>>

\* return err
Return(err) == pc' = "Done" /\ result' = err

\* ------------------------------------------------------------------------
\* createOrUpdateInterface
\* ------------------------------------------------------------------------

CallCreateOrUpdateInterface ==
  /\ pc = "Idle" /\ calls < MaxCalls
  /\ \E r \in Requests, st \in StatResults, f \in SampleConfFiles :
       /\ req' = r /\ binStat' = st /\ confFile' = f
  /\ calls' = calls + 1
  /\ entry' = "createOrUpdateInterface"
  /\ pc' = "coui_type"
  /\ UNCHANGED <<operation, result>>
  /\ UNCHANGED progress

\* the WebApps test, with every type taken for a supported one
IsWebAppsNever(r) == FALSE

IsWebApps(r) == r.NetworkContainerType = WebApps

CheckWebApps ==
  /\ pc = "coui_type"
  /\ IF IsWebApps(req)
     THEN Return(NilErr)
     ELSE pc' = "coui_exists" /\ UNCHANGED result
  /\ UNCHANGED callState
  /\ UNCHANGED progress

\* the !exists test, with the update attempted whatever the lookup found
InterfaceMissingNever(found) == FALSE

InterfaceMissing(found) == ~found

\* interfaceExists answers either way; its error is dropped
CheckInterfaceExists ==
  /\ pc = "coui_exists"
  /\ \E found \in BOOLEAN :
       /\ exists' = IF found THEN "true" ELSE "false"
       /\ IF InterfaceMissing(found)
          THEN Return(NilErr) /\ UNCHANGED operation
          ELSE pc' = "stat" /\ operation' = "UPDATE" /\ UNCHANGED result
  /\ UNCHANGED <<calls, entry, req, binStat, confFile>>
  /\ UNCHANGED <<podInfo, rt, conf, environ, stdin, procErr, stdout, flattens,
                 invocations, spawned>>

\* ------------------------------------------------------------------------
\* createOrUpdateWithOperation
\* ------------------------------------------------------------------------

CallCreateOrUpdateWithOperation ==
  /\ pc = "Idle" /\ calls < MaxCalls
  /\ \E r \in Requests, op \in Operations, st \in StatResults,
        f \in SampleConfFiles :
       /\ req' = r /\ operation' = op /\ binStat' = st /\ confFile' = f
  /\ calls' = calls + 1
  /\ entry' = "createOrUpdateWithOperation"
  /\ pc' = "stat"
  /\ UNCHANGED result
  /\ UNCHANGED progress

BinaryMissingErr ==
  ErrorString("[Azure CNS] Unable to find azure-vnet under /opt/cni/bin/. Cannot continue")
IPAddressNilErr ==
  ErrorString("[Azure CNS] IPAddress in IPConfiguration of createNetworkContainerRequest is nil")

\* os.Stat: only a not-exist error ends the call
StatBinary ==
  /\ pc = "stat"
  /\ IF binStat.kind # "nil" /\ IsNotExist(binStat)
     THEN Return(BinaryMissingErr)
     ELSE pc' = "ip" /\ UNCHANGED result
  /\ UNCHANGED callState
  /\ UNCHANGED progress

\* the IPAddress test, with the empty address let through
IPAddressEmptyNever(r) == FALSE

IPAddressEmpty(r) == r.IPAddress = ""

CheckIPAddress ==
  /\ pc = "ip"
  /\ IF IPAddressEmpty(req)
     THEN Return(IPAddressNilErr)
     ELSE pc' = "ctx" /\ UNCHANGED result
  /\ UNCHANGED callState
  /\ UNCHANGED progress

\* json.Unmarshal(OrchestratorContext, &podInfo)
UnmarshalPodInfo ==
  /\ pc = "ctx"
  /\ LET u == UnmarshalStruct(req.OrchestratorContext, PodInfoFields, PodInfoZero)
     IN /\ podInfo' = u.val
        /\ IF u.err.kind # "nil"
           THEN Return(u.err)
           ELSE pc' = "rt" /\ UNCHANGED result
  /\ UNCHANGED callState
  /\ UNCHANGED <<exists, rt, conf, environ, stdin, procErr, stdout, flattens,
                 invocations, spawned>>

\* rt, err := buildCNIRuntimeConf(...): err is always nil
BuildRuntimeConf ==
  /\ pc = "rt"
  /\ rt' = buildCNIRuntimeConf(podInfo[<<"podname">>], podInfo[<<"podnamespace">>],
                               "", "", req.NetworkContainerid)
  /\ pc' = "conf"
  /\ UNCHANGED callState
  /\ UNCHANGED <<exists, podInfo, conf, environ, stdin, procErr, stdout, result,
                 flattens, invocations, spawned>>

\* netConf, err := getNetworkConf("/etc/cni/net.d/10-azure.conflist")
GetNetworkConf ==
  /\ pc = "conf"
  /\ conf' = getNetworkConf(confFile)
  /\ IF conf'.outcome = "panic"
     THEN pc' = "Panicked" /\ UNCHANGED result
     ELSE IF conf'.err.kind # "nil"
     THEN Return(conf'.err)
     ELSE pc' = "invoke" /\ UNCHANGED result
  /\ flattens' = flattens + 1
  /\ UNCHANGED callState
  /\ UNCHANGED <<exists, podInfo, rt, environ, stdin, procErr, stdout,
                 invocations, spawned>>

\* updateNetwork up to the end of c.Run()
RunPlugin ==
  /\ pc = "invoke"
  /\ environ' = AsEnv(args("UPDATE", rt))
  /\ stdin' = conf.netConfig
  /\ \E run \in RunsOver(SampleOutputs) :
       /\ procErr' = run.err
       /\ stdout' = run.output
       /\ spawned' = IF run.err = StartError THEN spawned ELSE spawned + 1
  /\ invocations' = invocations + 1
  /\ pc' = "interpret"
  /\ UNCHANGED callState
  /\ UNCHANGED <<exists, podInfo, rt, conf, result, flattens>>

\* return pluginErr(err, stdout.Bytes()), with a failed run tried again
InterpretRetry ==
  /\ pc = "interpret"
  /\ LET res == pluginErr(procErr, stdout)
     IN IF res.kind # "nil" /\ invocations < 2
        THEN pc' = "invoke" /\ UNCHANGED result
        ELSE Return(res)
  /\ UNCHANGED callState
  /\ UNCHANGED progress

\* return pluginErr(err, stdout.Bytes()), handed on by the update path
Interpret ==
  /\ pc = "interpret"
  /\ Return(pluginErr(procErr, stdout))
  /\ UNCHANGED callState
  /\ UNCHANGED progress

\* the call is over (returned, or unwound by a panic); the next one starts
\* from nothing
EndCall ==
  /\ pc \in {"Done", "Panicked"}
  /\ pc' = "Idle"
  /\ entry' = "none"
  /\ req' = NoRequest
  /\ operation' = ""
  /\ binStat' = NilErr
  /\ confFile' = Absent
  /\ exists' = "none"
  /\ podInfo' = PodInfoZero
  /\ rt' = NoRt
  /\ conf' = NoConf
  /\ environ' = NoEnv
  /\ stdin' = <<>>
  /\ procErr' = NilErr
  /\ stdout' = <<>>
  /\ result' = NilErr
  /\ flattens' = 0
  /\ invocations' = 0
  /\ spawned' = 0
  /\ UNCHANGED calls

Next ==
  \/ CallCreateOrUpdateInterface
  \/ CheckWebApps
  \/ CheckInterfaceExists
  \/ CallCreateOrUpdateWithOperation
  \/ StatBinary
  \/ CheckIPAddress
  \/ UnmarshalPodInfo
  \/ BuildRuntimeConf
  \/ GetNetworkConf
  \/ RunPlugin
  \/ Interpret
  \/ EndCall

Spec == Init /\ [][Next]_vars

\* ------------------------------------------------------------------------
\* getNetworkConf on its own, over every file
\* ------------------------------------------------------------------------

InitConf ==
  /\ calls = 0
  /\ CallFresh
  /\ pc = "unit_conf"
  /\ binStat = NilErr
  /\ procErr = NilErr
  /\ stdout = <<>>
  /\ confFile \in AllConfFiles

ApplyGetNetworkConf ==
  /\ pc = "unit_conf"
  /\ conf' = getNetworkConf(confFile)
  /\ flattens' = flattens + 1
  /\ pc' = "unit_done"
  /\ UNCHANGED callState
  /\ UNCHANGED <<exists, podInfo, rt, environ, stdin, procErr, stdout, result,
                 invocations, spawned>>

NextConf == ApplyGetNetworkConf

SpecConf == InitConf /\ [][NextConf]_vars

\* ------------------------------------------------------------------------
\* pluginErr on its own, over every run of the plugin
\* ------------------------------------------------------------------------

InitPluginErr ==
  /\ calls = 0
  /\ CallFresh
  /\ pc = "unit_perr"
  /\ binStat = NilErr
  /\ confFile = Absent
  /\ \E run \in RunsOver(AllOutputs) : procErr = run.err /\ stdout = run.output

ApplyPluginErr ==
  /\ pc = "unit_perr"
  /\ result' = pluginErr(procErr, stdout)
  /\ pc' = "unit_done"
  /\ UNCHANGED callState
  /\ UNCHANGED progress

NextPluginErr == ApplyPluginErr

SpecPluginErr == InitPluginErr /\ [][NextPluginErr]_vars

\* ------------------------------------------------------------------------
\* What the properties speak of
\* ------------------------------------------------------------------------

\* the value a document holds under a name (Absent: none)
FieldOf(doc, name) ==
  IF \E i \in 1..Len(doc.v) : doc.v[i][1] = K(name)
  THEN doc.v[CHOOSE i \in 1..Len(doc.v) : doc.v[i][1] = K(name)][2]
  ELSE Absent

NamesOf(doc) == {doc.v[i][1] : i \in 1..Len(doc.v)}

\* string cniVersion, string name, non-empty plugins list of objects
WellFormed(file) ==
  /\ file.t = "obj"
  /\ FieldOf(file, "cniVersion").t = "str"
  /\ FieldOf(file, "name").t = "str"
  /\ FieldOf(file, "plugins").t = "arr"
  /\ FieldOf(file, "plugins").v # <<>>
  /\ \A i \in 1..Len(FieldOf(file, "plugins").v) :
       FieldOf(file, "plugins").v[i].t = "obj"

\* valid JSON whose plugins list is empty, or whose top level lacks
\* cniVersion, name or plugins or holds them with the wrong type
MalformedShape(file) ==
  /\ file.t = "obj"
  /\ \/ FieldOf(file, "plugins").t # "arr"
     \/ FieldOf(file, "plugins").v = <<>>
     \/ FieldOf(file, "cniVersion").t # "str"
     \/ FieldOf(file, "name").t # "str"

\* the contexts that hold pod metadata
GoodContextDocs ==
  {c \in ContextDocs :
     c.t = "obj" /\ FieldOf(c, "PodName").t = "str"
                 /\ FieldOf(c, "PodNamespace").t = "str"}

ContextDecodes(r) ==
  \E c \in GoodContextDocs : r.OrchestratorContext = Render(c)

\* the call is in, or went through, createOrUpdateWithOperation
InUpdatePath ==
  \/ entry = "createOrUpdateWithOperation"
  \/ entry = "createOrUpdateInterface" /\ exists = "true"

Contains(seq, sub) ==
  \E i \in 1..(Len(seq) - Len(sub) + 1) : SubSeq(seq, i, i + Len(sub) - 1) = sub

\* strconv.Unquote of what stands between the quotes
RECURSIVE UnquoteBody(_)
UnquoteBody(s) ==
  IF s = <<>> THEN <<>>
  ELSE IF Head(s) = BS /\ Len(s) > 1
  THEN <<(IF s[2] = "n" THEN LF ELSE s[2])>> \o UnquoteBody(Tail(Tail(s)))
  ELSE <<Head(s)>> \o UnquoteBody(Tail(s))

\* the payloads that fit types.Error, and the message each carries
WellTypedPayloads ==
  {p \in ErrorPayloads : FieldOf(p, "msg").t \in {"absent", "str", "null"}
                          /\ FieldOf(p, "pos").t \in {"absent", "num"}}

PayloadMsg(p) == IF FieldOf(p, "msg").t = "str" THEN FieldOf(p, "msg").v ELSE <<>>

OutputParses == UnmarshalStruct(stdout, ErrorFields, ErrorZero).err.kind = "nil"
ParseFailure == UnmarshalStruct(stdout, ErrorFields, ErrorZero).err.msg

NoSubprocess == flattens = 0 /\ invocations = 0 /\ spawned = 0
                /\ conf = NoConf /\ environ = NoEnv /\ stdin = <<>>

\* ------------------------------------------------------------------------
\* Properties
\* ------------------------------------------------------------------------

\* C1: a createOrUpdateInterface call for a WebApps request returns nil
\* straight from the type test: the interface lookup is not asked, and
\* neither getNetworkConf nor updateNetwork is reached (no subprocess),
\* whatever the address, the context and the file system are.
C1_WebAppsNoOp ==
  (entry = "createOrUpdateInterface" /\ req.NetworkContainerType = WebApps) =>
    /\ pc \in {"coui_type", "Done"}
    /\ exists = "none"
    /\ NoSubprocess
    /\ pc = "Done" => result = NilErr

C1_Witness ==
  /\ entry = "createOrUpdateInterface" /\ req.NetworkContainerType = WebApps
  /\ pc = "Done"
  /\ req.IPAddress = "" /\ ~ContextDecodes(req) /\ IsNotExist(binStat)

\* C2: a createOrUpdateInterface call for a supported type whose lookup
\* finds no interface returns nil and reaches neither getNetworkConf nor
\* updateNetwork, whatever the request and the file system hold.
C2_NoInterfaceNoOp ==
  (entry = "createOrUpdateInterface" /\ req.NetworkContainerType # WebApps
     /\ exists = "false") =>
    /\ pc = "Done" /\ result = NilErr
    /\ NoSubprocess

C2_Witness ==
  /\ entry = "createOrUpdateInterface" /\ req.NetworkContainerType # WebApps
  /\ exists = "false" /\ pc = "Done"
  /\ binStat = NilErr /\ req.IPAddress # "" /\ ContextDecodes(req)
  /\ WellFormed(confFile)

\* C3: in the update path, when os.Stat reports the binary missing, or the
\* address is empty, or the context does not decode into pod metadata, the
\* call gets no further than these checks: it returns a non-nil error and
\* updateNetwork is never reached (no subprocess).
C3_FailFast ==
  (InUpdatePath /\ (IsNotExist(binStat) \/ req.IPAddress = ""
                    \/ ~ContextDecodes(req))) =>
    /\ pc \in {"stat", "ip", "ctx", "Done"}
    /\ invocations = 0 /\ spawned = 0 /\ environ = NoEnv
    /\ pc = "Done" => result.kind # "nil"

C3_Witness ==
  /\ InUpdatePath /\ pc = "Done"
  /\ binStat = NilErr /\ req.IPAddress # "" /\ ~ContextDecodes(req)
  /\ WellFormed(confFile)
  /\ result.kind \in {"SyntaxError", "UnmarshalTypeError"}

\* C4: for a document that is valid JSON but of the wrong shape,
\* getNetworkConf returns a parsing error and nil bytes, the update path
\* returns that error, spawns nothing, and ends in no other way.
C4_MalformedReturnsError ==
  (flattens = 1 /\ MalformedShape(confFile)) =>
    /\ conf.outcome = "returned"
    /\ conf.err.kind # "nil" /\ conf.netConfig = <<>>
    /\ pc = "Done" /\ result = conf.err
    /\ invocations = 0 /\ spawned = 0

\* C5: for a well-formed document the bytes getNetworkConf returns are a
\* JSON object whose names are those of the first plugin entry and
\* cniVersion and name; cniVersion and name hold the top-level values,
\* every other name the first entry's value.
C5_Flattened ==
  (pc = "unit_done" /\ WellFormed(confFile)) =>
    /\ conf.outcome = "returned" /\ conf.err = NilErr
    /\ LET flat == ParseJSON(conf.netConfig)
           first == FieldOf(confFile, "plugins").v[1]
       IN /\ flat.ok /\ flat.val.t = "obj"
          /\ NamesOf(flat.val) = NamesOf(first) \cup {VersionStr, NameStr}
          /\ Cardinality(NamesOf(flat.val)) = Len(flat.val.v)
          /\ FieldOf(flat.val, "cniVersion") = FieldOf(confFile, "cniVersion")
          /\ FieldOf(flat.val, "name") = FieldOf(confFile, "name")
          /\ \A n \in PluginKeys \ {"cniVersion", "name"} :
               FieldOf(flat.val, n) = FieldOf(first, n)

C5_Witness ==
  /\ pc = "unit_done" /\ WellFormed(confFile)
  /\ Len(FieldOf(confFile, "plugins").v) = 2
  /\ FieldOf(confFile, "plugins").v[1] = PluginEntry({"type", "name", "cniVersion"})
  /\ FieldOf(confFile, "plugins").v[2] = PluginEntry({})
  /\ FieldOf(confFile, "extra").t = "str"
  /\ conf.outcome = "returned"

\* C6 as claimed: after an exit-status error pluginErr returns a plugin
\* error; its message is the payload's when the output parses, and else
\* embeds the raw output and the parse failure.
C6_EmbedsRawOutput ==
  (pc = "unit_done" /\ procErr = ExitError) =>
    /\ result.kind = "PluginError"
    /\ \A p \in WellTypedPayloads : stdout = Render(p) => result.msg = PayloadMsg(p)
    /\ ~OutputParses => Contains(result.msg, stdout) /\ Contains(result.msg, ParseFailure)

\* C6: after an exit-status error pluginErr returns a plugin error, never
\* nil and never the process error; its message is the payload's when the
\* output parses, and else is the fixed prefix, the output in quoted form
\* (between double quotes, with double quotes, backslashes and newlines
\* escaped, so that unquoting gives the output back), and the parse
\* failure; the output stands in it byte for byte when nothing in it
\* needs escaping.
C6_ExitErrorIsPluginError ==
  (pc = "unit_done" /\ procErr = ExitError) =>
    /\ result.kind = "PluginError"
    /\ \A p \in WellTypedPayloads : stdout = Render(p) => result.msg = PayloadMsg(p)
    /\ (OutputParses /\ stdout \in RawOutputs) => result.msg = <<>>
    /\ ~OutputParses =>
         /\ Len(result.msg) >= 5
         /\ result.msg[1] = ParseFailurePrefix
         /\ result.msg[2] = DQ /\ result.msg[Len(result.msg) - 2] = DQ
         /\ UnquoteBody(SubSeq(result.msg, 3, Len(result.msg) - 3)) = stdout
         /\ SubSeq(result.msg, Len(result.msg) - 1, Len(result.msg))
              = <<": ">> \o ParseFailure
         /\ (\A i \in 1..Len(stdout) : stdout[i] \notin {DQ, BS, LF})
              => Contains(result.msg, stdout)

C6_Witness ==
  /\ pc = "unit_done" /\ procErr = ExitError
  /\ stdout = <<"b", DQ, LF>>
  /\ result.kind = "PluginError"

\* C7: when c.Run() did not end with an exit-status error pluginErr returns
\* its error as it is: nil after a clean exit whatever was written, the
\* same error value after any other failure, never a plugin error.
C7_OtherOutcomesUnchanged ==
  (pc = "unit_done" /\ procErr.kind # "ExitError") =>
    /\ result = procErr
    /\ result.kind # "PluginError"
    /\ procErr = NilErr => result.kind = "nil"

C7_Witness ==
  /\ pc = "unit_done" /\ procErr = NilErr
  /\ stdout = Render(ErrorPayload(Str(<<"boom">>), Absent))
  /\ result = NilErr

\* C8: the environment of the spawned plugin carries the operation given
\* to createOrUpdateWithOperation, the runtime context's container id,
\* namespace path and interface name (the network container id), the pod
\* namespace pair then the pod name pair, and the plugin directory.
C8_EnvironmentFromOperation ==
  invocations = 1 =>
    /\ environ.CNI_COMMAND = operation
    /\ environ.CNI_CONTAINERID = rt.ContainerID
    /\ environ.CNI_NETNS = rt.NetNS
    /\ environ.CNI_IFNAME = rt.IfName /\ rt.IfName = req.NetworkContainerid
    /\ environ.CNI_PATH = "/opt/cni/bin"
    /\ \A c \in GoodContextDocs :
         req.OrchestratorContext = Render(c) =>
           environ.CNI_ARGS =
             <<"K8S_POD_NAMESPACE", "=">> \o FieldOf(c, "PodNamespace").v
             \o <<";", "K8S_POD_NAME", "=">> \o FieldOf(c, "PodName").v

\* C9: the update path ends with the error of the first check that fails,
\* in the order binary, address, context, configuration document.
C9_FirstFailingCheck ==
  (InUpdatePath /\ pc \in {"Done", "Panicked"}) =>
    IF IsNotExist(binStat) THEN pc = "Done" /\ result = BinaryMissingErr
    ELSE IF req.IPAddress = "" THEN pc = "Done" /\ result = IPAddressNilErr
    ELSE IF ~ContextDecodes(req)
    THEN /\ pc = "Done" /\ flattens = 0
         /\ result.kind \in {"SyntaxError", "UnmarshalTypeError"}
    ELSE IF ~WellFormed(confFile)
    THEN /\ pc = "Done" /\ invocations = 0
         /\ result.kind \in {"PathError", "SyntaxError", "UnmarshalTypeError"}
    ELSE invocations = 1

\* the phases of a call
PhaseOf(p) ==
  CASE p \in {"coui_type", "coui_exists", "stat", "ip", "ctx"} -> 1
    [] p \in {"rt", "conf"} -> 2
    [] p = "invoke" -> 3
    [] p = "interpret" -> 4
    [] p \in {"Done", "Panicked"} -> 5
    [] OTHER -> 0

C10_Once ==
  /\ flattens <= 1 /\ invocations <= 1 /\ spawned <= invocations
  /\ flattens = 1 => PhaseOf(pc) >= 2
  /\ (pc \in {"invoke", "interpret"} \/ invocations = 1) =>
       /\ InUpdatePath /\ flattens = 1
       /\ ~IsNotExist(binStat) /\ req.IPAddress # "" /\ ContextDecodes(req)
       /\ conf.outcome = "returned" /\ conf.err = NilErr
  /\ invocations = 1 => PhaseOf(pc) >= 4 /\ stdin = conf.netConfig
  /\ pc = "interpret" => invocations = 1
  /\ pc = "Done" =>
       IF invocations = 0 THEN result.kind # "PluginError"
       ELSE /\ procErr = NilErr => result = NilErr
            /\ procErr = ExitError => result.kind = "PluginError"
            /\ procErr \notin {NilErr, ExitError} => result = procErr

C10_Step ==
  \/ /\ PhaseOf(pc') >= PhaseOf(pc)
     /\ flattens' >= flattens /\ invocations' >= invocations
     /\ spawned' >= spawned
  \/ PhaseOf(pc) = 5 /\ pc' = "Idle"

\* C10: a call only moves forward through Idle, Validating, BuildingConfig,
\* Invoking, Interpreting, Done: the document is flattened at most once
\* and before the spawn, at most one subprocess is spawned and only after
\* every check has passed, and the result is nil, a plugin error or the
\* execution error, as the subprocess ended.
C10_ForwardOnly == []C10_Once /\ [][C10_Step]_vars

C10_Witness ==
  /\ calls = MaxCalls /\ pc = "Done"
  /\ invocations = 1 /\ spawned = 1 /\ flattens = 1
  /\ result.kind = "PluginError"

====
